---- MODULE Spec2Model ----
(***************************************************************************)
(* Model of the MIDI song database generator (src/python.py).              *)
(*                                                                         *)
(* Strings are TLA+ strings; Len, \o and SubSeq act on them character by   *)
(* character, so str.replace, str.split, str.strip, str.lower and the two  *)
(* re.sub calls are modelled by what they do to the characters.            *)
(*                                                                         *)
(*   Spec    a run of main(): directory listing -> glob -> loop -> write   *)
(*   SpecFn  extract_song_info_from_filename and the loop body of          *)
(*           generate_midi_songs_json applied to one filename              *)
(***************************************************************************)
EXTENDS Integers, Sequences, FiniteSets, TLC

VARIABLES
    pc,           \* position in main() / generate_midi_songs_json()
    dirExists,    \* Path("midi").exists()
    listing,      \* directory entries of midi/, in the order the OS yields them
    midi_files,   \* list built on line 125
    next_file,    \* index of the next element of midi_files the loop takes
    songs,        \* list built by the loop
    midi_songs,   \* value returned to main: None or a list
    outFile,      \* midi_songs_database.json on disk
    fileAtStart,  \* midi_songs_database.json as it was before the run
    opens,        \* number of open() calls on the output file
    stdout,       \* lines printed, in order
    arg,          \* SpecFn: the filename the functions are applied to
    info,         \* SpecFn: result of extract_song_info_from_filename(arg)
    song          \* SpecFn: record the loop body builds for arg

vars == <<pc, dirExists, listing, midi_files, next_file, songs, midi_songs,
          outFile, fileAtStart, opens, stdout, arg, info, song>>

-----------------------------------------------------------------------------
(* Bounds of the model *)

\* a generated filename stem is the concatenation of at most MaxParts tokens
MaxParts == 2
\* the midi directory of a run of main() holds at most MaxFiles entries
MaxFiles == 2

-----------------------------------------------------------------------------
(* Python string operations *)

Char(s, i) == SubSeq(s, i, i)

Suffix(s, i) == SubSeq(s, i, Len(s))

StartsWith(s, p) == Len(p) <= Len(s) /\ SubSeq(s, 1, Len(p)) = p

EndsWith(s, p) == Len(p) <= Len(s) /\ SubSeq(s, Len(s) - Len(p) + 1, Len(s)) = p

\* sub in s
Contains(s, sub) ==
    \E i \in 1..(Len(s) - Len(sub) + 1) : SubSeq(s, i, i + Len(sub) - 1) = sub

\* s.find(sub) + 1: index of the first occurrence, 0 when there is none
Find(s, sub) ==
    IF Contains(s, sub)
    THEN CHOOSE i \in 1..(Len(s) - Len(sub) + 1) :
            /\ SubSeq(s, i, i + Len(sub) - 1) = sub
            /\ \A j \in 1..(i - 1) : SubSeq(s, j, j + Len(sub) - 1) # sub
    ELSE 0

\* s.replace(old, ""): every non-overlapping occurrence, left to right
RECURSIVE Remove(_, _)
Remove(s, old) ==
    IF Len(s) < Len(old) THEN s
    ELSE IF SubSeq(s, 1, Len(old)) = old
         THEN Remove(Suffix(s, Len(old) + 1), old)
         ELSE Char(s, 1) \o Remove(Suffix(s, 2), old)

UpperLetters == "ABCDEFGHIJKLMNOPQRSTUVWXYZ"
LowerLetters == "abcdefghijklmnopqrstuvwxyz"
Digits == "0123456789"

LowerChar(c) ==
    IF Contains(UpperLetters, c) THEN Char(LowerLetters, Find(UpperLetters, c)) ELSE c

\* s.lower()
RECURSIVE Lower(_)
Lower(s) == IF s = "" THEN "" ELSE LowerChar(Char(s, 1)) \o Lower(Suffix(s, 2))

IsSpace(c) == c \in {" ", "\t", "\n", "\r"}

RECURSIVE LStrip(_)
LStrip(s) == IF s # "" /\ IsSpace(Char(s, 1)) THEN LStrip(Suffix(s, 2)) ELSE s

RECURSIVE RStrip(_)
RStrip(s) ==
    IF s # "" /\ IsSpace(Char(s, Len(s))) THEN RStrip(SubSeq(s, 1, Len(s) - 1)) ELSE s

\* s.strip()
Strip(s) == RStrip(LStrip(s))

\* s.split(sep, 1) when sep occurs in s: <<parts[0], parts[1]>>
Split1(s, sep) ==
    LET i == Find(s, sep)
    IN  <<SubSeq(s, 1, i - 1), Suffix(s, i + Len(sep))>>

IsSlugChar(c) == Contains(LowerLetters, c) \/ Contains(Digits, c)

\* re.sub(r'[^a-z0-9]', '-', s)
RECURSIVE SubNonAlnum(_)
SubNonAlnum(s) ==
    IF s = "" THEN ""
    ELSE (IF IsSlugChar(Char(s, 1)) THEN Char(s, 1) ELSE "-") \o SubNonAlnum(Suffix(s, 2))

\* re.sub(r'-+', '-', s)
RECURSIVE SubHyphenRuns(_)
SubHyphenRuns(s) ==
    IF s = "" THEN ""
    ELSE IF StartsWith(s, "--") THEN SubHyphenRuns(Suffix(s, 2))
         ELSE Char(s, 1) \o SubHyphenRuns(Suffix(s, 2))

\* s.strip('-')
RECURSIVE StripHyphens(_)
StripHyphens(s) ==
    IF StartsWith(s, "-") THEN StripHyphens(Suffix(s, 2))
    ELSE IF EndsWith(s, "-") THEN StripHyphens(SubSeq(s, 1, Len(s) - 1))
         ELSE s

-----------------------------------------------------------------------------
(* extract_song_info_from_filename *)

\* outcome of a call that raised instead of returning
Raise(e) == [exception |-> e]

Raised(v) == "exception" \in DOMAIN v

\* filename.replace('.mid', '').replace('.midi', '')
StripExtensions(filename) == Remove(Remove(filename, ".mid"), ".midi")

\* s.split(sep, 1): the list of parts, a single part when sep does not occur
SplitOnce(s, sep) == IF Contains(s, sep) THEN Split1(s, sep) ELSE <<s>>

\* parts[0].strip(), parts[1].strip(); parts[1] of a one-element list raises
ArtistTitle(parts) ==
    IF Len(parts) < 2 THEN Raise("IndexError")
    ELSE [title |-> Strip(parts[2]), artist |-> Strip(parts[1])]

DefaultSplitHyphenFirst(name) ==
    IF Contains(name, " -") THEN ArtistTitle(SplitOnce(name, " -"))
    ELSE IF Contains(name, " - ") THEN ArtistTitle(SplitOnce(name, " - "))
    ELSE [title |-> name, artist |-> "Unknown"]

DefaultSplitLooseGuard(name) ==
    IF Contains(name, " - ") THEN ArtistTitle(SplitOnce(name, " - "))
    ELSE IF Contains(name, "-") THEN ArtistTitle(SplitOnce(name, " -"))
    ELSE [title |-> name, artist |-> "Unknown"]

\* the defaults and the split on ' - ' or ' -'
DefaultSplit(name) ==
    IF Contains(name, " - ") THEN ArtistTitle(SplitOnce(name, " - "))
    ELSE IF Contains(name, " -") THEN ArtistTitle(SplitOnce(name, " -"))
    ELSE [title |-> name, artist |-> "Unknown"]

Known(title, artist) == [title |-> title, artist |-> artist]

MetallicaRuleNothingFirst(l, d) ==
    IF Contains(l, "nothing") THEN Known("Nothing Else Matters", "Metallica")
    ELSE IF Contains(l, "master") THEN Known("Master of Puppets", "Metallica")
    ELSE Known(d.title, "Metallica")

\* body of the 'metallica' branch; l is name.lower(), d the values set so far
MetallicaRule(l, d) ==
    IF Contains(l, "master") THEN Known("Master of Puppets", "Metallica")
    ELSE IF Contains(l, "nothing") THEN Known("Nothing Else Matters", "Metallica")
    ELSE Known(d.title, "Metallica")

\* body of the 'beach' and 'town' branch
BeachTownRule(l, d) ==
    IF Contains(l, "violin") THEN Known("Beach Town Violin", "Traditional")
    ELSE IF Contains(l, "flute") THEN Known("Beach Town Flute", "Traditional")
    ELSE Known(d.title, "Traditional")

\* the elif chain from 'michael jackson' to the end
LaterSpecialCases(l, d) ==
    IF Contains(l, "michael jackson") \/ Contains(l, "billie jean")
    THEN Known("Billie Jean", "Michael Jackson")
    ELSE IF Contains(l, "nirvana") \/ Contains(l, "smells")
    THEN Known("Smells Like Teen Spirit", "Nirvana")
    ELSE IF Contains(l, "owl city") \/ Contains(l, "fireflies")
    THEN Known("Fireflies", "Owl City")
    ELSE IF Contains(l, "pokemon")
    THEN Known("Wild Pokemon Battle", "Pokemon")
    ELSE IF Contains(l, "smash") /\ Contains(l, "mouth")
    THEN Known("All Star", "Smash Mouth")
    ELSE IF Contains(l, "final countdown")
    THEN Known("The Final Countdown", "Europe")
    ELSE IF Contains(l, "toto") \/ Contains(l, "africa")
    THEN Known("Africa", "Toto")
    ELSE IF Contains(l, "wii") /\ Contains(l, "theme")
    THEN Known("Wii Theme", "Nintendo")
    ELSE IF Contains(l, "mii channel")
    THEN Known("Mii Channel", "Nintendo")
    ELSE IF Contains(l, "super smash")
    THEN Known("Super Smash Bros Brawl - Main Theme", "Nintendo")
    ELSE IF Contains(l, "mountain king")
    THEN Known("In the Hall of the Mountain King", "Grieg")
    ELSE IF Contains(l, "titanic") \/ Contains(l, "heart")
    THEN Known("My Heart Will Go On", "Celine Dion")
    ELSE IF Contains(l, "backstreet")
    THEN Known("I Want It That Way", "Backstreet Boys")
    ELSE IF Contains(l, "dooms-gate")
    THEN Known("Doom's Gate", "Doom")
    ELSE IF Contains(l, "spearsofjustice")
    THEN Known("Spear of Justice", "Undertale")
    ELSE IF Contains(l, "test-drive")
    THEN Known("Test Drive", "Test")
    ELSE IF Contains(l, "desert") \/ Contains(l, "canyon")
    THEN Known("Desert Canyon", "Traditional")
    ELSE IF Contains(l, "beach") /\ Contains(l, "town")
    THEN BeachTownRule(l, d)
    ELSE d

SpecialCasesBeethovenFirst(l, d) ==
    IF Contains(l, "beethoven") \/ Contains(l, "moonlight")
    THEN Known("Moonlight Sonata", "Beethoven")
    ELSE IF Contains(l, "twinkle")
    THEN Known("Twinkle Twinkle Little Star", "Traditional")
    ELSE IF Contains(l, "debussy") \/ Contains(l, "clair")
    THEN Known("Clair de Lune", "Debussy")
    ELSE IF Contains(l, "metallica")
    THEN MetallicaRule(l, d)
    ELSE LaterSpecialCases(l, d)

\* the if/elif chain "Special cases for known songs"
SpecialCases(l, d) ==
    IF Contains(l, "twinkle")
    THEN Known("Twinkle Twinkle Little Star", "Traditional")
    ELSE IF Contains(l, "beethoven") \/ Contains(l, "moonlight")
    THEN Known("Moonlight Sonata", "Beethoven")
    ELSE IF Contains(l, "debussy") \/ Contains(l, "clair")
    THEN Known("Clair de Lune", "Debussy")
    ELSE IF Contains(l, "metallica")
    THEN MetallicaRule(l, d)
    ELSE LaterSpecialCases(l, d)

\* overall_difficulty = 5  # Hardcoded to 5
overall_difficulty == 5

extract_song_info_from_filename(filename) ==
    LET name == StripExtensions(filename)
        d    == DefaultSplit(name)
    IN  IF Raised(d) THEN d
        ELSE LET r == SpecialCases(Lower(name), d)
             IN  [title |-> r.title,
                  artist |-> r.artist,
                  difficulties |-> <<"easy">>,
                  overall_difficulty |-> overall_difficulty]

-----------------------------------------------------------------------------
(* Loop body of generate_midi_songs_json *)

SongIdKeepHyphens(filename) ==
    SubHyphenRuns(SubNonAlnum(Lower(StripExtensions(filename))))

\* song_id of lines 134-136
SongId(filename) ==
    StripHyphens(SubHyphenRuns(SubNonAlnum(Lower(StripExtensions(filename)))))

SoundFontUrl == "https://porter-smith.github.io/rhythm-master-files/soundfonts/gzdoom.sf2"
MidiUrlPrefix == "https://porter-smith.github.io/rhythm-master-files/midi/"

SoundFontKeywords == {"doom", "spearsofjustice", "beach", "desert"}

\* the song object of one file; an exception of the classifier propagates
BuildSong(filename) ==
    LET song_info == extract_song_info_from_filename(filename)
        song_id   == SongId(filename)
    IN  IF Raised(song_info) THEN song_info
        ELSE [id |-> song_id \o "-midi",
              title |-> song_info.title,
              artist |-> song_info.artist,
              duration |-> "0:30",
              difficulties |-> song_info.difficulties,
              bpm |-> 120,
              format |-> "midi",
              overallDifficulty |-> song_info.overall_difficulty,
              soundFont |-> IF \E k \in SoundFontKeywords : Contains(Lower(filename), k)
                            THEN SoundFontUrl ELSE SoundFontUrl,
              midiFiles |-> [easy |-> MidiUrlPrefix \o filename],
              audioFiles |-> [easy |-> "/audio/" \o song_id \o "-easy.mp3"],
              notes |-> [easy |-> <<>>]]

-----------------------------------------------------------------------------
(* generate_midi_songs_json and main *)

\* fnmatch of a name against the pattern "*" + suffix
MatchesStar(name, suffix) == EndsWith(name, suffix)

\* list(midi_dir.glob("*" + suffix)): the matching entries, in listing order
Glob(entries, suffix) == SelectSeq(entries, LAMBDA n : MatchesStar(n, suffix))

GlobMidiFilesPrefixPattern(entries) ==
    Glob(entries, ".mid") \o SelectSeq(entries, LAMBDA n : Contains(n, ".mid"))

\* list(midi_dir.glob("*.mid")) + list(midi_dir.glob("*.midi"))
GlobMidiFiles(entries) == Glob(entries, ".mid") \o Glob(entries, ".midi")

\* Optional[List]: what generate_midi_songs_json returns
None == [isNone |-> TRUE, list |-> <<>>]
List(l) == [isNone |-> FALSE, list |-> l]

FalsyOnlyNone(v) == v.isNone

\* not midi_songs
Falsy(v) == v.isNone \/ Len(v.list) = 0

CatalogAllSongsEmpty(l) == [midiSongs |-> l, allSongs |-> <<>>]

\* the output object of main
Catalog(l) == [midiSongs |-> l, allSongs |-> l]

\* the output file: absent, or holding the JSON of an object
NoFile == [exists |-> FALSE, json |-> [midiSongs |-> <<>>, allSongs |-> <<>>]]
FileWith(obj) == [exists |-> TRUE, json |-> obj]
\* a database left by an earlier run
StaleFile ==
    FileWith([midiSongs |-> <<BuildSong("old.mid")>>, allSongs |-> <<BuildSong("old.mid")>>])

\* the lines main prints for one song of the TypeScript-like structure
SongLines(s, last) ==
    << "  {",
       "    id: '" \o s.id \o "',",
       "    title: '" \o s.title \o "',",
       "    artist: '" \o s.artist \o "',",
       "    duration: '" \o s.duration \o "',",
       "    difficulties: [\"easy\"],",
       "    bpm: " \o ToString(s.bpm) \o ",",
       "    format: 'midi',",
       "    overallDifficulty: " \o ToString(s.overallDifficulty) \o ",",
       "    soundFont: '" \o s.soundFont \o "',",
       "    midiFiles: {",
       "      easy: '" \o s.midiFiles.easy \o "'",
       "    },",
       "    notes: {",
       "      easy: []",
       "    }",
       IF last THEN "  }" ELSE "  }," >>

RECURSIVE AllSongLines(_, _)
AllSongLines(l, i) ==
    IF i > Len(l) THEN <<>>
    ELSE SongLines(l[i], i = Len(l)) \o AllSongLines(l, i + 1)

\* names the midi directory of a run may hold
DirNames ==
    { "Metallica - One.mid", "random_song.midi", "_.mid",
      "notes.txt", "demo.midi.bak", "twinkle.mid.midi" }

IsListing(l) == \A i, j \in DOMAIN l : i # j => l[i] # l[j]

Listings == { l \in UNION { [1..n -> DirNames] : n \in 0..MaxFiles } : IsListing(l) }

NotCalled == [called |-> FALSE]

Init ==
    /\ pc = "main"
    /\ dirExists \in BOOLEAN
    /\ listing \in (IF dirExists THEN Listings ELSE {<<>>})
    /\ midi_files = <<>>
    /\ next_file = 1
    /\ songs = <<>>
    /\ midi_songs = None
    /\ fileAtStart \in {NoFile, StaleFile}
    /\ outFile = fileAtStart
    /\ opens = 0
    /\ stdout = <<>>
    /\ arg = ""
    /\ info = NotCalled
    /\ song = NotCalled

fnVars == <<arg, info, song>>

\* main: print("Analyzing MIDI files..."), then the call
MainStart ==
    /\ pc = "main"
    /\ stdout' = Append(stdout, "Analyzing MIDI files...")
    /\ pc' = "generate"
    /\ UNCHANGED <<dirExists, listing, midi_files, next_file, songs, midi_songs,
                   outFile, fileAtStart, opens, fnVars>>

\* generate_midi_songs_json: the directory is missing, bare return
DirMissing ==
    /\ pc = "generate"
    /\ ~dirExists
    /\ stdout' = Append(stdout, "MIDI directory midi not found!")
    /\ midi_songs' = None
    /\ pc' = "returned"
    /\ UNCHANGED <<dirExists, listing, midi_files, next_file, songs,
                   outFile, fileAtStart, opens, fnVars>>

\* generate_midi_songs_json: the two globs
GlobFiles ==
    /\ pc = "generate"
    /\ dirExists
    /\ midi_files' = GlobMidiFiles(listing)
    /\ next_file' = 1
    /\ songs' = <<>>
    /\ pc' = "loop"
    /\ UNCHANGED <<dirExists, listing, midi_songs, outFile, fileAtStart, opens,
                   stdout, fnVars>>

\* one iteration of the for loop; an exception is caught by main's except
ProcessFile ==
    /\ pc = "loop"
    /\ next_file <= Len(midi_files)
    /\ LET s == BuildSong(midi_files[next_file])
       IN  IF Raised(s)
           THEN /\ stdout' = Append(stdout, "Error: " \o s.exception)
                /\ pc' = "done"
                /\ UNCHANGED <<songs, next_file>>
           ELSE /\ songs' = Append(songs, s)
                /\ next_file' = next_file + 1
                /\ UNCHANGED <<stdout, pc>>
    /\ UNCHANGED <<dirExists, listing, midi_files, midi_songs, outFile,
                   fileAtStart, opens, fnVars>>

\* return songs
ReturnSongs ==
    /\ pc = "loop"
    /\ next_file > Len(midi_files)
    /\ midi_songs' = List(songs)
    /\ pc' = "returned"
    /\ UNCHANGED <<dirExists, listing, midi_files, next_file, songs, outFile,
                   fileAtStart, opens, stdout, fnVars>>

\* main: if not midi_songs: print, return
NoSongs ==
    /\ pc = "returned"
    /\ Falsy(midi_songs)
    /\ stdout' = Append(stdout, "No MIDI songs found!")
    /\ pc' = "done"
    /\ UNCHANGED <<dirExists, listing, midi_files, next_file, songs, midi_songs,
                   outFile, fileAtStart, opens, fnVars>>

\* main: build the object, open the file for writing, json.dump, two prints
WriteOutput ==
    /\ pc = "returned"
    /\ ~Falsy(midi_songs)
    /\ opens' = opens + 1
    /\ outFile' = FileWith(Catalog(midi_songs.list))
    /\ stdout' = stdout \o
          << "Generated database with " \o ToString(Len(midi_songs.list)) \o " MIDI songs",
             "Saved to: midi_songs_database.json" >>
    /\ pc' = "typescript"
    /\ UNCHANGED <<dirExists, listing, midi_files, next_file, songs, midi_songs,
                   fileAtStart, fnVars>>

\* main: open() raises (the path is not writable); caught by except Exception
OpenFails ==
    /\ pc = "returned"
    /\ ~Falsy(midi_songs)
    /\ opens' = opens + 1
    /\ stdout' = Append(stdout, "Error: [Errno 13] Permission denied: 'midi_songs_database.json'")
    /\ pc' = "done"
    /\ UNCHANGED <<dirExists, listing, midi_files, next_file, songs, midi_songs,
                   outFile, fileAtStart, fnVars>>

\* main: the TypeScript-like structure
PrintTypeScript ==
    /\ pc = "typescript"
    /\ stdout' = stdout \o
          << "\n==================================================",
             "TypeScript-like structure:",
             "==================================================",
             "export const midiSongs: MidiSong[] = [" >>
          \o AllSongLines(midi_songs.list, 1) \o << "];" >>
    /\ pc' = "done"
    /\ UNCHANGED <<dirExists, listing, midi_files, next_file, songs, midi_songs,
                   outFile, fileAtStart, opens, fnVars>>

Next ==
    \/ MainStart
    \/ DirMissing
    \/ GlobFiles
    \/ ProcessFile
    \/ ReturnSongs
    \/ NoSongs
    \/ WriteOutput
    \/ OpenFails
    \/ PrintTypeScript

Spec == Init /\ [][Next]_vars

-----------------------------------------------------------------------------
(* The two functions applied to one filename *)

\* pieces of generated filenames
Tokens ==
    { "twinkle", "Beethoven", "Metallica", "master", "nothing", "Beach Town",
      "violin", "flute", " - ", " -", "A", "b7", "_", ".mid" }

Extensions == { "", ".mid", ".midi" }

RECURSIVE Stems(_)
Stems(n) ==
    IF n = 0 THEN {""}
    ELSE LET shorter == Stems(n - 1)
         IN  shorter \cup { p \o t : p \in shorter, t \in Tokens }

\* filenames of the repository's kind, one for every rule of the chain
Samples ==
    { "Metallica - Master of Puppets.mid", "random_song.midi",
      "A -B - C.mid", "metallica nothing master.mid", "Metallica - One.midi", "Metallica - One.mid",
      "beach town flute violin.mid", "Beach_Town.mid", "twinkle beethoven.mid",
      "Clair de Lune.mid", "billie jean.mid", "Smells.mid", "fireflies.midi",
      "pokemon.mid", "smash mouth.mid", "final countdown.mid", "africa.mid",
      "wii theme.mid", "mii channel.mid", "super smash.mid", "mountain king.mid",
      "titanic.mid", "backstreet.mid", "dooms-gate.mid", "spearsofjustice.mid",
      "test-drive.mid", "canyon.mid", "x.midesert.mid", "twin.midkle.mid",
      "SONG.MID", "a\tb - c .mid" }

Inputs == { s \o e : s \in Stems(MaxParts), e \in Extensions } \cup Samples

InitFn ==
    /\ pc = "idle"
    /\ dirExists = FALSE
    /\ listing = <<>>
    /\ midi_files = <<>>
    /\ next_file = 1
    /\ songs = <<>>
    /\ midi_songs = None
    /\ fileAtStart = NoFile
    /\ outFile = NoFile
    /\ opens = 0
    /\ stdout = <<>>
    /\ arg \in Inputs
    /\ info = NotCalled
    /\ song = NotCalled

runVars == <<pc, dirExists, listing, midi_files, next_file, songs, midi_songs,
             outFile, fileAtStart, opens, stdout>>

\* extract_song_info_from_filename(arg), for any string
CallExtract ==
    /\ pc = "idle"
    /\ info = NotCalled
    /\ info' = extract_song_info_from_filename(arg)
    /\ UNCHANGED <<runVars, arg, song>>

\* the loop body for arg, when one of the globs yields arg
CallLoopBody ==
    /\ pc = "idle"
    /\ song = NotCalled
    /\ Len(GlobMidiFiles(<<arg>>)) > 0
    /\ song' = BuildSong(arg)
    /\ UNCHANGED <<runVars, arg, info>>

NextFn ==
    \/ CallExtract
    \/ CallLoopBody

SpecFn == InitFn /\ [][NextFn]_vars

-----------------------------------------------------------------------------
(* Reference definitions the properties are stated with *)

HasMidiExt(f) == EndsWith(f, ".mid") \/ EndsWith(f, ".midi")

\* the filename without its trailing .mid / .midi, and nothing else removed
TrueStem(f) ==
    IF EndsWith(f, ".midi") THEN SubSeq(f, 1, Len(f) - 5)
    ELSE IF EndsWith(f, ".mid") THEN SubSeq(f, 1, Len(f) - 4)
    ELSE f

IsAlnum(c) == \E i \in 1..36 : Char(LowerLetters \o Digits, i) = c

\* every maximal run of non-alphanumerics becomes one hyphen; inRun: the
\* previous character was part of such a run
RECURSIVE RunsToHyphen(_, _)
RunsToHyphen(s, inRun) ==
    IF s = "" THEN ""
    ELSE IF IsAlnum(Char(s, 1)) THEN Char(s, 1) \o RunsToHyphen(Suffix(s, 2), FALSE)
    ELSE (IF inRun THEN "" ELSE "-") \o RunsToHyphen(Suffix(s, 2), TRUE)

TrimHyphens(s) ==
    LET keep == { i \in 1..Len(s) : Char(s, i) # "-" }
    IN  IF keep = {} THEN ""
        ELSE SubSeq(s, CHOOSE i \in keep : \A j \in keep : i <= j,
                       CHOOSE i \in keep : \A j \in keep : i >= j)

\* the slug as the specification derives it
RefSlug(f) == TrimHyphens(RunsToHyphen(Lower(TrueStem(f)), FALSE))

\* [a-z0-9]+(-[a-z0-9]+)*
IsSlug(s) ==
    /\ s # ""
    /\ \A i \in 1..Len(s) : IsAlnum(Char(s, i)) \/ Char(s, i) = "-"
    /\ Char(s, 1) # "-"
    /\ Char(s, Len(s)) # "-"
    /\ \A i \in 1..(Len(s) - 1) : ~(Char(s, i) = "-" /\ Char(s, i + 1) = "-")

\* ^[a-z0-9]+(-[a-z0-9]+)*-midi$
MatchesIdPattern(id) ==
    /\ EndsWith(id, "-midi")
    /\ IsSlug(SubSeq(id, 1, Len(id) - 5))

\* the keyword rules as a table, in the documented order
Rule(kind, kws, title, artist, sub) ==
    [kind |-> kind, kws |-> kws, title |-> title, artist |-> artist, sub |-> sub]

KeywordRules ==
    << Rule("any", {"twinkle"}, "Twinkle Twinkle Little Star", "Traditional", <<>>),
       Rule("any", {"beethoven", "moonlight"}, "Moonlight Sonata", "Beethoven", <<>>),
       Rule("any", {"debussy", "clair"}, "Clair de Lune", "Debussy", <<>>),
       Rule("any", {"metallica"}, "", "Metallica",
            << <<"master", "Master of Puppets">>, <<"nothing", "Nothing Else Matters">> >>),
       Rule("any", {"michael jackson", "billie jean"}, "Billie Jean", "Michael Jackson", <<>>),
       Rule("any", {"nirvana", "smells"}, "Smells Like Teen Spirit", "Nirvana", <<>>),
       Rule("any", {"owl city", "fireflies"}, "Fireflies", "Owl City", <<>>),
       Rule("any", {"pokemon"}, "Wild Pokemon Battle", "Pokemon", <<>>),
       Rule("all", {"smash", "mouth"}, "All Star", "Smash Mouth", <<>>),
       Rule("any", {"final countdown"}, "The Final Countdown", "Europe", <<>>),
       Rule("any", {"toto", "africa"}, "Africa", "Toto", <<>>),
       Rule("all", {"wii", "theme"}, "Wii Theme", "Nintendo", <<>>),
       Rule("any", {"mii channel"}, "Mii Channel", "Nintendo", <<>>),
       Rule("any", {"super smash"}, "Super Smash Bros Brawl - Main Theme", "Nintendo", <<>>),
       Rule("any", {"mountain king"}, "In the Hall of the Mountain King", "Grieg", <<>>),
       Rule("any", {"titanic", "heart"}, "My Heart Will Go On", "Celine Dion", <<>>),
       Rule("any", {"backstreet"}, "I Want It That Way", "Backstreet Boys", <<>>),
       Rule("any", {"dooms-gate"}, "Doom's Gate", "Doom", <<>>),
       Rule("any", {"spearsofjustice"}, "Spear of Justice", "Undertale", <<>>),
       Rule("any", {"test-drive"}, "Test Drive", "Test", <<>>),
       Rule("any", {"desert", "canyon"}, "Desert Canyon", "Traditional", <<>>),
       Rule("all", {"beach", "town"}, "", "Traditional",
            << <<"violin", "Beach Town Violin">>, <<"flute", "Beach Town Flute">> >>) >>

RuleHolds(r, l) ==
    IF r.kind = "all" THEN \A k \in r.kws : Contains(l, k)
    ELSE \E k \in r.kws : Contains(l, k)

\* index of the earliest rule whose predicate holds of l, 0 when none does
FirstMatch(l) ==
    LET hit == { i \in DOMAIN KeywordRules : RuleHolds(KeywordRules[i], l) }
    IN  IF hit = {} THEN 0 ELSE CHOOSE i \in hit : \A j \in hit : i <= j

\* title a rule gives: its own, or that of its first matching sub-keyword,
\* or the title already set when it has sub-rules and none matches
RuleTitle(r, l, before) ==
    IF r.sub = <<>> THEN r.title
    ELSE LET hit == { i \in DOMAIN r.sub : Contains(l, r.sub[i][1]) }
         IN  IF hit = {} THEN before
             ELSE r.sub[CHOOSE i \in hit : \A j \in hit : i <= j][2]

\* text before / after the occurrence of a separator of length n at index i
Before(name, i) == Strip(SubSeq(name, 1, i - 1))
After(name, i, n) == Strip(SubSeq(name, i + n, Len(name)))

\* title and artist before the keyword rules: ' - ' is tried first, then ' -'
SplitTitle(name) ==
    IF Contains(name, " - ") THEN After(name, Find(name, " - "), 3)
    ELSE IF Contains(name, " -") THEN After(name, Find(name, " -"), 2)
    ELSE name

SplitArtist(name) ==
    IF Contains(name, " - ") THEN Before(name, Find(name, " - "))
    ELSE IF Contains(name, " -") THEN Before(name, Find(name, " -"))
    ELSE "Unknown"

Extracted == info # NotCalled
Built == song # NotCalled

\* the name the classifier works on
CodeName == StripExtensions(arg)

\* positions of the two rules that have sub-rules
MetallicaIndex == CHOOSE i \in DOMAIN KeywordRules : KeywordRules[i].kws = {"metallica"}
BeachTownIndex == CHOOSE i \in DOMAIN KeywordRules : KeywordRules[i].kws = {"beach", "town"}

-----------------------------------------------------------------------------
(* C1 *)

\* C1 as stated: every record id of a .mid/.midi file matches
\* ^[a-z0-9]+(-[a-z0-9]+)*-midi$ (in particular it has no leading hyphen).
C1_IdAlwaysMatchesPattern ==
    Built => MatchesIdPattern(song.id)

\* C1 as amended: the id ends with "-midi", is made of lowercase letters,
\* digits and hyphens only and has no doubled hyphen; it matches the pattern
\* exactly when the name left by the extension removal holds a letter or a
\* digit, and is "-midi" otherwise.
C1_IdPatternUnlessEmptySlug ==
    Built =>
        LET id   == song.id
            slug == SubSeq(id, 1, Len(id) - 5)
            hasAlnum == \E i \in 1..Len(CodeName) : IsAlnum(Char(Lower(CodeName), i))
        IN  /\ EndsWith(id, "-midi")
            /\ \A i \in 1..Len(id) : IsAlnum(Char(id, i)) \/ Char(id, i) = "-"
            /\ ~Contains(id, "--")
            /\ hasAlnum => MatchesIdPattern(id)
            /\ ~hasAlnum => id = "-midi"

C1_Witness ==
    /\ Built
    /\ arg = "Metallica - Master of Puppets.mid"
    /\ song.id = "metallica-master-of-puppets-midi"

-----------------------------------------------------------------------------
(* C2 *)

\* C2 as stated: a .mid/.midi filename that matches no keyword rule and holds
\* neither " - " nor " -" gets title = filename without its extension and
\* artist "Unknown"; random_song.midi gets title "random_song" and id
\* "random-song-midi".
C2_UnmatchedKeepsStem ==
    /\ ( /\ Extracted
         /\ HasMidiExt(arg)
         /\ FirstMatch(Lower(TrueStem(arg))) = 0
         /\ ~Contains(arg, " -") )
       => (info.title = TrueStem(arg) /\ info.artist = "Unknown")
    /\ (Built /\ arg = "random_song.midi")
       => (song.title = "random_song" /\ song.id = "random-song-midi")

-----------------------------------------------------------------------------
(* C3 *)

\* C3 as stated: the record id is the reference slug (trailing extension
\* removed and nothing else, lowercased, runs of non-alphanumerics to one
\* hyphen, hyphens trimmed) followed by "-midi", and audioFiles.easy is
\* "/audio/" + that slug + "-easy.mp3".
C3_IdIsReferenceSlug ==
    Built =>
        /\ song.id = RefSlug(arg) \o "-midi"
        /\ song.audioFiles.easy = "/audio/" \o RefSlug(arg) \o "-easy.mp3"

-----------------------------------------------------------------------------
(* C4 *)

\* C4: title and artist are those of the earliest rule of the fixed order
\* whose predicate holds of the lowercased name, whatever later rules also
\* match, and the split values when no rule matches; a filename containing
\* both "twinkle" and "beethoven" is "Twinkle Twinkle Little Star" by
\* "Traditional".
C4_FirstMatchWins ==
    Extracted =>
        LET l == Lower(CodeName)
            i == FirstMatch(l)
        IN  /\ i = 0 => /\ info.title = SplitTitle(CodeName)
                        /\ info.artist = SplitArtist(CodeName)
            /\ i # 0 => /\ info.artist = KeywordRules[i].artist
                        /\ info.title = RuleTitle(KeywordRules[i], l, SplitTitle(CodeName))
            /\ (Contains(Lower(arg), "twinkle") /\ Contains(Lower(arg), "beethoven"))
               => /\ info.title = "Twinkle Twinkle Little Star"
                  /\ info.artist = "Traditional"

C4_Witness ==
    /\ Extracted
    /\ Contains(Lower(arg), "twinkle")
    /\ Contains(Lower(arg), "beethoven")
    /\ info.artist = "Traditional"

-----------------------------------------------------------------------------
(* C5 *)

\* the run has written the output file
Wrote == pc \in {"typescript", "done"} /\ outFile # fileAtStart

\* C5: in every run that writes the output file, the written midiSongs and
\* allSongs are the same list, in the same order: the list of records built.
C5_ListsEqual ==
    Wrote =>
        /\ outFile.json.midiSongs = outFile.json.allSongs
        /\ outFile.json.allSongs = songs

C5_Witness ==
    /\ Wrote
    /\ Len(outFile.json.allSongs) = 2
    /\ outFile.json.allSongs[1] # outFile.json.allSongs[2]

-----------------------------------------------------------------------------
(* C6 *)

NothingToDo == ~dirExists \/ \A i \in DOMAIN listing : ~HasMidiExt(listing[i])

InStdout(line) == \E i \in DOMAIN stdout : stdout[i] = line

\* C6: with the midi directory absent, or holding no .mid/.midi file, main
\* never opens the output file and leaves it as it was, prints a status
\* message and runs to its end without an error; the file is written only in
\* runs that produced at least one record.
C6_NothingWrittenWithoutSongs ==
    /\ NothingToDo =>
          /\ opens = 0
          /\ outFile = fileAtStart
          /\ pc # "done" => ENABLED Next
          /\ pc = "done" =>
                /\ stdout[Len(stdout)] = "No MIDI songs found!"
                /\ ~dirExists => InStdout("MIDI directory midi not found!")
    /\ outFile # fileAtStart => (~midi_songs.isNone /\ Len(midi_songs.list) >= 1)

C6_Witness ==
    /\ pc = "done"
    /\ dirExists
    /\ Len(listing) = 2
    /\ NothingToDo
    /\ outFile = StaleFile

-----------------------------------------------------------------------------
(* C7 *)

MidiEntries == { i \in DOMAIN listing : HasMidiExt(listing[i]) }

\* C7: the written object has exactly the keys midiSongs and allSongs, each
\* array is as long as the number of .mid/.midi entries of the directory,
\* and every such entry has exactly one record.
C7_OneRecordPerFile ==
    Wrote =>
        /\ DOMAIN outFile.json = {"midiSongs", "allSongs"}
        /\ Len(outFile.json.midiSongs) = Cardinality(MidiEntries)
        /\ Len(outFile.json.allSongs) = Cardinality(MidiEntries)
        /\ \A i \in MidiEntries :
              Cardinality({ k \in DOMAIN outFile.json.midiSongs :
                  outFile.json.midiSongs[k].midiFiles.easy = MidiUrlPrefix \o listing[i] }) = 1

C7_Witness ==
    /\ Wrote
    /\ \E i, j \in MidiEntries : EndsWith(listing[i], ".mid") /\ EndsWith(listing[j], ".midi")

-----------------------------------------------------------------------------
(* C8 *)

\* C8: for every input string, the empty string and strings without an
\* extension included, the classifier returns (it does not raise) a record of
\* title, artist, difficulties = ["easy"] and overall difficulty 5.
C8_TotalWithFixedDifficulty ==
    Extracted =>
        /\ ~Raised(info)
        /\ DOMAIN info = {"title", "artist", "difficulties", "overall_difficulty"}
        /\ Len(info.title) >= 0
        /\ Len(info.artist) >= 0
        /\ info.difficulties = <<"easy">>
        /\ info.overall_difficulty = 5

C8_Witness ==
    /\ Extracted
    /\ arg = ""
    /\ info.title = ""
    /\ info.artist = "Unknown"

-----------------------------------------------------------------------------
(* C9 *)

\* C9 as stated: when the name holds " - " or " -" and no keyword rule
\* matches, artist and title are the trimmed texts before and after the
\* first occurrence of either separator in the name.
C9_SplitAtFirstOfEither ==
    (Extracted /\ Contains(CodeName, " -") /\ FirstMatch(Lower(CodeName)) = 0) =>
        LET i == Find(CodeName, " -")
            n == IF StartsWith(Suffix(CodeName, i), " - ") THEN 3 ELSE 2
        IN  /\ info.artist = Before(CodeName, i)
            /\ info.title = After(CodeName, i, n)

\* C9 as amended: the name being the filename with every ".mid" removed, and
\* no keyword rule matching: when the name holds " - " the split is at the
\* first " - ", also when a " -" comes earlier; only when it holds no " - "
\* is the split at the first " -".
C9_SpaceHyphenSpaceFirst ==
    (Extracted /\ Contains(CodeName, " -") /\ FirstMatch(Lower(CodeName)) = 0) =>
        IF Contains(CodeName, " - ")
        THEN /\ info.artist = Before(CodeName, Find(CodeName, " - "))
             /\ info.title = After(CodeName, Find(CodeName, " - "), 3)
        ELSE /\ info.artist = Before(CodeName, Find(CodeName, " -"))
             /\ info.title = After(CodeName, Find(CodeName, " -"), 2)

C9_Witness ==
    /\ Extracted
    /\ arg = "A -B - C.mid"
    /\ info.artist = "A -B"
    /\ info.title = "C"

-----------------------------------------------------------------------------
(* C10 *)

SubKeywordHit(i, l) == \E k \in DOMAIN KeywordRules[i].sub : Contains(l, KeywordRules[i].sub[k][1])

\* C10 as stated: when "metallica" or "beach"+"town" is the first match, the
\* artist is overridden, the title is that of the first matching
\* sub-keyword, and with no sub-keyword the title is the unmodified filename
\* (with or without its extension).  Stated for the filenames whose only
\* ".mid" is the extension, where the name is the filename without it.
C10_TitleStaysFilename ==
    (Extracted /\ HasMidiExt(arg) /\ CodeName = TrueStem(arg)) =>
        LET l == Lower(CodeName)
            i == FirstMatch(l)
        IN  i \in {MetallicaIndex, BeachTownIndex} =>
               /\ info.artist = KeywordRules[i].artist
               /\ SubKeywordHit(i, l) => info.title = RuleTitle(KeywordRules[i], l, "")
               /\ ~SubKeywordHit(i, l) => info.title \in {arg, TrueStem(arg), CodeName}

\* C10 as amended: with no sub-keyword the title stays what the split step
\* set: the trimmed text after the first separator when the name holds one,
\* the name otherwise. "Metallica - Master of Puppets.mid" is "Master of
\* Puppets" by "Metallica", id "metallica-master-of-puppets-midi".
C10_TitleStaysSplitTitle ==
    /\ Extracted =>
          LET l == Lower(CodeName)
              i == FirstMatch(l)
          IN  i \in {MetallicaIndex, BeachTownIndex} =>
                 /\ info.artist = KeywordRules[i].artist
                 /\ info.title = RuleTitle(KeywordRules[i], l, SplitTitle(CodeName))
    /\ (Built /\ arg = "Metallica - Master of Puppets.mid") =>
          /\ song.title = "Master of Puppets"
          /\ song.artist = "Metallica"
          /\ song.id = "metallica-master-of-puppets-midi"

C10_Witness ==
    /\ Extracted
    /\ arg = "Metallica - One.mid"
    /\ info.artist = "Metallica"
    /\ info.title = "One"

====
